---- MODULE Spec2Model ----
(***************************************************************************)
(* State-machine model of the CarSales training pipeline:                  *)
(*   src/src/prep.py      preprocess_data  (validate, coerce, clean, fit)  *)
(*   src/src/train.py     train_model      (split, baseline, search, save) *)
(*   src/src/register.py  register_model   (signature, registry, checks)   *)
(* Floating-point values are records [k |-> "num", v |-> n] or the NaN     *)
(* record, so that every comparison with NaN is FALSE as in IEEE 754.      *)
(***************************************************************************)
EXTENDS Integers, Sequences, FiniteSets, TLC

VARIABLES
    pc,            \* position of the running stage
    columns,       \* column names of the input CSV
    df,            \* the data frame of preprocess_data (sequence of rows)
    initial_size,  \* prep.py:53
    final_size,    \* prep.py:56
    preprocessor,  \* the ColumnTransformer and its fitted state
    X_processed,   \* prep.py:83
    prep_dir,      \* files of the prep output directory (name -> content)
    error,         \* per stage, the exception that ended it ("" when none)
    input_csv,     \* the input file: [columns, rows]
    applied,       \* result of the last transform of a future row
    cv_data,       \* what the data decide of the cross-validation scores
    split,         \* train_test_split: row positions of the two splits
    baseline,      \* the baseline model and its held-out metrics
    search,        \* GridSearchCV: cv_results_, folds, best_index_
    best,          \* best_estimator_, its held-out metrics, improvement
    model_dir,     \* files of the model output directory (name -> content)
    tracking,      \* metrics and artifacts logged to the MLflow runs
    registry,      \* versions of the registered model, oldest first
    reg,           \* locals of the running register_model
    runs,          \* number of register_model runs started
    predict_calls, \* the calls of predict made so far: who was given what
    azure,         \* outcome of train_model_azure
    parallel       \* GridSearchCV's tasks: dispatched, running, collected

stageVars == <<cv_data, split, baseline, search, best, model_dir, tracking,
               registry, reg, runs, predict_calls, azure, parallel>>

vars == <<pc, columns, df, initial_size, final_size, preprocessor,
          X_processed, prep_dir, error, input_csv, applied, stageVars>>

----------------------------------------------------------------------------
(* Bounds of the model *)

MaxPrepRows == 2
MaxRows == 4
MaxRuns == 2
MaxLoss == 1
MaxHeldOut == 2
MaxText == 4
MaxCalls == 2
MaxWorkers == 2

----------------------------------------------------------------------------
(* Floats and raw cells *)

\* A cell is [k, v, s]: kind, numeric value, text (a sequence of characters).
NaN == [k |-> "nan", v |-> 0, s |-> <<>>]
Num(n) == [k |-> "num", v |-> n, s |-> <<>>]
Str(s) == [k |-> "str", v |-> 0, s |-> s]

IsNaN(f) == f.k = "nan"

Digits == <<"0", "1", "2", "3", "4", "5", "6", "7", "8", "9">>
IsDigit(c) == \E i \in 1..10 : Digits[i] = c
DigitVal(c) == (CHOOSE i \in 1..10 : Digits[i] = c) - 1
IsSign(c) == c \in {"-", "+"}

\* number of consecutive digits of s starting at position j
RECURSIVE DigitRun(_, _)
DigitRun(s, j) ==
    IF j <= Len(s) /\ IsDigit(s[j]) THEN 1 + DigitRun(s, j + 1) ELSE 0

\* value of the digits s[j .. j+n-1]
RECURSIVE DigitsValue(_, _, _)
DigitsValue(s, j, n) ==
    IF n = 0 THEN 0
    ELSE 10 * DigitsValue(s, j, n - 1) + DigitVal(s[j + n - 1])

IsExpLetter(c) == c \in {"e", "E"}

\* the character at position i, "" past either end
CharAt(s, i) == IF i >= 1 /\ i <= Len(s) THEN s[i] ELSE ""

RECURSIVE Pow10(_)
Pow10(n) == IF n = 0 THEN 1 ELSE 10 * Pow10(n - 1)

RECURSIVE TrailingZeros(_)
TrailingZeros(m) ==
    IF m # 0 /\ m % 10 = 0 THEN 1 + TrailingZeros(m \div 10) ELSE 0

RECURSIVE NumDigits(_)
NumDigits(m) ==
    IF m < 10 /\ m > -10 THEN 1
    ELSE 1 + NumDigits((IF m < 0 THEN -m ELSE m) \div 10)

\* The float m * 10^e. A whole number of at most nine digits is the cell
\* Num(n); any other value keeps its decimal exponent in a field e, with v
\* not divisible by 10, so that equal numbers are equal cells. The texts of
\* the model are short of the exponents at which a double overflows.
Dec(m, e) ==
    IF m = 0 THEN Num(0)
    ELSE LET z == TrailingZeros(m)
             m1 == m \div Pow10(z)
             e1 == e + z
         IN  IF e1 >= 0 /\ NumDigits(m1) + e1 <= 9
             THEN Num(m1 * Pow10(e1))
             ELSE [k |-> "num", v |-> m1, e |-> e1, s |-> <<>>]

\* an exception raised in place of a value
Raised == [k |-> "raise", v |-> 0, s |-> <<>>]

\* float(t) for a text t of signs, digits, points and letters: the value of
\* a decimal literal, ValueError for anything else
PyFloat(t) ==
    LET sg == IF IsSign(CharAt(t, 1)) THEN 1 ELSE 0
        a == DigitRun(t, sg + 1)
        dot == IF CharAt(t, sg + a + 1) = "." THEN 1 ELSE 0
        b == IF dot = 1 THEN DigitRun(t, sg + a + 2) ELSE 0
        q == sg + a + dot + b + 1
        hasExp == IsExpLetter(CharAt(t, q))
        xs == IF hasExp /\ IsSign(CharAt(t, q + 1)) THEN 1 ELSE 0
        c == IF hasExp THEN DigitRun(t, q + 1 + xs) ELSE 0
        stop == IF hasExp THEN q + 1 + xs + c ELSE q
        mant == DigitsValue(t, sg + 1, a) * Pow10(b)
                + DigitsValue(t, sg + a + 2, b)
        ex == (IF CharAt(t, q + 1) = "-" THEN -1 ELSE 1)
              * DigitsValue(t, q + 1 + xs, c)
    IN  IF a + b = 0 \/ (hasExp /\ c = 0) \/ stop # Len(t) + 1
        THEN Raised
        ELSE Dec((IF CharAt(t, 1) = "-" THEN -1 ELSE 1) * mant, ex - b)

\* re.search at a fixed start i of [-+]?\d*\.?\d+(?:[eE][-+]?\d+)? as the
\* backtracking matcher runs it: the sign if there is one, the longest run
\* of digits, a point only when a digit follows it (otherwise the run gives
\* back its last digit to \d+), then the exponent only when it has a digit.
\* The match is s[start .. stop - 1].
MatchAt(s, i) ==
    LET j == IF IsSign(CharAt(s, i)) THEN i + 1 ELSE i
        a == DigitRun(s, j)
        b == IF CharAt(s, j + a) = "." THEN DigitRun(s, j + a + 1) ELSE 0
        q == IF b > 0 THEN j + a + 1 + b ELSE j + a
        r == IF IsSign(CharAt(s, q + 1)) THEN q + 2 ELSE q + 1
        c == IF IsExpLetter(CharAt(s, q)) THEN DigitRun(s, r) ELSE 0
    IN  IF a = 0 /\ b = 0
        THEN [found |-> FALSE, start |-> 0, stop |-> 0]
        ELSE [found |-> TRUE, start |-> i,
              stop |-> IF c > 0 THEN r + c ELSE q]

\* variant: re.match, which only tries the start of the text
SearchFromStartOnly(s, i) ==
    IF i > Len(s) THEN [found |-> FALSE, start |-> 0, stop |-> 0]
    ELSE MatchAt(s, i)

\* the leftmost start at which the pattern matches
RECURSIVE SearchFrom(_, _)
SearchFrom(s, i) ==
    IF i > Len(s) THEN [found |-> FALSE, start |-> 0, stop |-> 0]
    ELSE IF MatchAt(s, i).found THEN MatchAt(s, i)
    ELSE SearchFrom(s, i + 1)

extract_float(x) ==
    IF x.k = "nan" THEN NaN
    ELSE IF x.k = "num" THEN Num(x.v)
    ELSE LET m == SearchFrom(x.s, 1)
         IN  IF m.found THEN PyFloat(SubSeq(x.s, m.start, m.stop - 1))
             ELSE NaN

----------------------------------------------------------------------------
(* Columns and the inputs of preprocess_data *)

required_cols ==
    {"Segment", "Kilometers_Driven", "Mileage", "Engine", "Power", "Seats",
     "price"}
numeric_cols ==
    <<"Kilometers_Driven", "Mileage", "Engine", "Power", "Seats", "price">>
numeric_features ==
    <<"Kilometers_Driven", "Mileage", "Engine", "Power", "Seats">>
categorical_features == <<"Segment">>

SeqRange(s) == {s[i] : i \in 1..Len(s)}

\* The segment values of the model, in the lexicographic order np.unique and
\* min() use; "" never occurs as a value.
SegmentUniverse == <<"luxury", "non-luxury segment", "suv">>
SegRank(c) == CHOOSE i \in 1..Len(SegmentUniverse) : SegmentUniverse[i] = c
NoSegment == [k |-> "nan", v |-> 0, s |-> ""]
Seg(c) == [k |-> "cat", v |-> 0, s |-> c]

RawRow(km, mileage, price, seg) ==
    [Kilometers_Driven |-> km, Mileage |-> mileage, Engine |-> Num(1200),
     Power |-> Num(80), Seats |-> Num(5), price |-> price, Segment |-> seg]

\* Representative raw records: numeric, textual and missing cells.
RowCatalogue ==
    { RawRow(Num(5), Num(15), Num(2), Seg("luxury")),
      RawRow(Str(<<"7", " ", "k", "m">>), Num(20), Str(<<"3">>), Seg("suv")),
      RawRow(Num(5), Num(15), NaN, Seg("luxury")),
      RawRow(Num(5), Num(15), Num(0), Seg("luxury")),
      RawRow(Num(5), Num(15), Str(<<"-", "1">>), Seg("suv")),
      RawRow(Num(-1), Num(15), Num(2), Seg("luxury")),
      RawRow(NaN, Num(15), Num(2), Seg("suv")),
      RawRow(Num(0), NaN, Num(4), NoSegment),
      RawRow(Num(5), Num(15), Str(<<"P", "O", "A">>), Seg("luxury")),
      RawRow(Num(9), Num(-1), Num(2), Seg("non-luxury segment")) }

\* a CSV row holds a cell for each column of the file
Restrict(row, cols) == [c \in cols |-> row[c]]

ColumnSets == {required_cols} \cup {required_cols \ {c} : c \in required_cols}

Tables(rows, n) == UNION {[1..m -> rows] : m \in 0..n}

----------------------------------------------------------------------------
(* Float comparisons: FALSE whenever an operand is NaN *)

Gt0(f) == f.k = "num" /\ f.v > 0
Ge0(f) == f.k = "num" /\ f.v >= 0

----------------------------------------------------------------------------
(* The Feature Transformer: ColumnTransformer(num: median imputer + scaler, *)
(* cat: most-frequent imputer + one-hot encoder with handle_unknown=ignore) *)

Column(X, c) == [i \in 1..Len(X) |-> X[i][c]]
Observed(X, c) == SelectSeq(Column(X, c), LAMBDA f : ~IsNaN(f))

RECURSIVE SumSeq(_)
SumSeq(s) == IF s = <<>> THEN 0 ELSE Head(s) + SumSeq(Tail(s))

\* position of a least element of a non-empty sequence of integers
MinPos(s) == CHOOSE i \in 1..Len(s) : \A j \in 1..Len(s) : s[i] <= s[j]
Without(s, i) == SubSeq(s, 1, i - 1) \o SubSeq(s, i + 1, Len(s))
RECURSIVE SortInts(_)
SortInts(s) ==
    IF s = <<>> THEN <<>>
    ELSE <<s[MinPos(s)]>> \o SortInts(Without(s, MinPos(s)))

\* twice the median of a non-empty sequence of integers
Median2(s) ==
    LET t == SortInts(s)
        n == Len(t)
    IN  IF n % 2 = 1 THEN 2 * t[(n + 1) \div 2]
        ELSE t[n \div 2] + t[n \div 2 + 1]

\* SimpleImputer(strategy="median").fit: columns with no observed value have
\* no statistic and are dropped by transform
NumKept(X) ==
    SelectSeq(numeric_features, LAMBDA c : Observed(X, c) # <<>>)

\* twice the value of the cell after median imputation
Imputed2(f, med2) == IF IsNaN(f) THEN med2 ELSE 2 * f.v

NumStats(X, c) ==
    LET obs == Observed(X, c)
        med2 == Median2([i \in 1..Len(obs) |-> obs[i].v])
        imp == [i \in 1..Len(X) |-> Imputed2(X[i][c], med2)]
    IN  [median2 |-> med2, sum2 |-> SumSeq(imp), count |-> Len(X)]

CountOf(X, c) == Cardinality({i \in 1..Len(X) : X[i].Segment = Seg(c)})
ObservedCats(X) ==
    {c \in SeqRange(SegmentUniverse) : CountOf(X, c) > 0}

\* SimpleImputer(strategy="most_frequent"): the smallest of the most frequent
MostFrequent(X) ==
    CHOOSE c \in ObservedCats(X) :
        /\ \A d \in ObservedCats(X) : CountOf(X, d) <= CountOf(X, c)
        /\ \A d \in ObservedCats(X) :
               CountOf(X, d) = CountOf(X, c) => SegRank(c) <= SegRank(d)

\* OneHotEncoder.categories_: the sorted distinct values of the fitted column
SortedCats(S) == SelectSeq(SegmentUniverse, LAMBDA c : c \in S)

Unfitted ==
    [fitted |-> FALSE, fit_rows |-> {}, num_kept |-> <<>>,
     stats |-> <<>>, mode |-> "", categories |-> <<>>]

\* fit raises on an empty table and on a Segment column without any value
CanFit(X) == Len(X) > 0 /\ ObservedCats(X) # {}

\* preprocessor.fit over the rows X, whose positions in the cleaned table
\* are `rows`
Fit(X, rows) ==
    [fitted |-> TRUE,
     fit_rows |-> rows,
     num_kept |-> NumKept(X),
     stats |-> [c \in SeqRange(NumKept(X)) |-> NumStats(X, c)],
     mode |-> MostFrequent(X),
     categories |-> SortedCats(ObservedCats(X))]

\* variant: an unseen category gets a column of its own
OneHotGrowing(cats, c) ==
    [i \in 1..Len(cats) |-> IF cats[i] = c THEN 1 ELSE 0]
    \o (IF c \in SeqRange(cats) THEN <<>> ELSE <<1>>)

\* handle_unknown="ignore": an unseen category sets no column
OneHot(cats, c) == [i \in 1..Len(cats) |-> IF cats[i] = c THEN 1 ELSE 0]

\* StandardScaler: 2 * count * (x - mean), the standardised value up to the
\* positive fit-time factor 1 / (2 * count * std)
Centred(st, f) == st.count * Imputed2(f, st.median2) - st.sum2

\* preprocessor.transform of one row: numeric columns first, then one column
\* per fitted category
TransformRow(P, row) ==
    [i \in 1..Len(P.num_kept) |->
        Centred(P.stats[P.num_kept[i]], row[P.num_kept[i]])]
    \o OneHot(P.categories,
              IF row.Segment.k = "nan" THEN P.mode ELSE row.Segment.s)

FeatureCols == SeqRange(numeric_features) \cup SeqRange(categorical_features)

\* variant: an absent column is read as a column of missing values
TransformFilling(P, row) ==
    [ok |-> TRUE,
     out |-> TransformRow(P, [c \in FeatureCols |->
                                 IF c \in DOMAIN row THEN row[c]
                                 ELSE IF c = "Segment"
                                      THEN [k |-> "nan", v |-> 0, s |-> ""]
                                      ELSE NaN]),
     error |-> ""]

\* transform of a table row: fails when a fitted column is absent
Transform(P, row) ==
    IF ~(FeatureCols \subseteq DOMAIN row)
    THEN [ok |-> FALSE, out |-> <<>>, error |-> "ValueError: columns are missing"]
    ELSE [ok |-> TRUE, out |-> TransformRow(P, row), error |-> ""]

----------------------------------------------------------------------------
(* preprocess_data, step by step *)

Unset == -1

\* a directory without files
EmptyDir == [f \in {} |-> f]

NoError == [prep |-> "", train |-> "", register |-> ""]

FeatureName(col, cat) == [col |-> col, cat |-> cat]

\* df["Segment"].unique(): distinct values in order of first appearance, the
\* missing value included (formatted "nan" by the f-string)
RECURSIVE Unique(_)
Unique(s) ==
    IF s = <<>> THEN <<>>
    ELSE LET r == Unique(SubSeq(s, 1, Len(s) - 1))
             x == s[Len(s)]
         IN  IF x \in SeqRange(r) THEN r ELSE Append(r, x)

SegmentText(c) == IF c.k = "nan" THEN "nan" ELSE c.s

FeatureNames(d) ==
    [i \in 1..Len(numeric_features) |-> FeatureName(numeric_features[i], "")]
    \o LET u == Unique(Column(d, "Segment"))
       IN  [i \in 1..Len(u) |-> FeatureName("Segment", SegmentText(u[i]))]

\* variant: the target column is not among the validated ones
MissingColsFeaturesOnly(cols) == (required_cols \ {"price"}) \ cols

MissingCols(cols) == required_cols \ cols

\* prep.py:38
ReadCsv ==
    /\ pc = "p_load"
    /\ df' = input_csv.rows
    /\ columns' = input_csv.columns
    /\ pc' = "p_validate"
    /\ UNCHANGED <<initial_size, final_size, preprocessor, X_processed,
                   prep_dir, error, input_csv, applied, stageVars>>

\* prep.py:42-45
ValidateColumns ==
    /\ pc = "p_validate"
    /\ IF MissingCols(columns) # {}
       THEN /\ error' = [error EXCEPT !.prep = "ValueError: Missing required columns"]
            /\ pc' = "p_error"
       ELSE /\ pc' = "p_convert"
            /\ UNCHANGED error
    /\ UNCHANGED <<columns, df, initial_size, final_size, preprocessor,
                   X_processed, prep_dir, input_csv, applied, stageVars>>

ConvertRow(row) ==
    [c \in DOMAIN row |->
        IF c \in SeqRange(numeric_cols) THEN extract_float(row[c]) ELSE row[c]]

\* an exception of extract_float leaves Series.apply
ConvertRaises(d) ==
    \E i \in 1..Len(d) : \E c \in SeqRange(numeric_cols) :
        ConvertRow(d[i])[c].k = "raise"

\* prep.py:48-50; df[col] of an absent column raises KeyError
ConvertNumeric ==
    /\ pc = "p_convert"
    /\ IF SeqRange(numeric_cols) \subseteq columns
       THEN IF ConvertRaises(df)
            THEN /\ error' = [error EXCEPT !.prep = "ValueError: float"]
                 /\ pc' = "p_error"
                 /\ UNCHANGED df
            ELSE /\ df' = [i \in 1..Len(df) |-> ConvertRow(df[i])]
                 /\ pc' = "p_clean"
                 /\ UNCHANGED error
       ELSE /\ error' = [error EXCEPT !.prep = "KeyError"]
            /\ pc' = "p_error"
            /\ UNCHANGED df
    /\ UNCHANGED <<columns, initial_size, final_size, preprocessor,
                   X_processed, prep_dir, input_csv, applied, stageVars>>

\* variant: a zero price passes the filter
KeepRowNonNegative(r) ==
    r.price.k = "num" /\ r.price.v >= 0 /\ Ge0(r.Kilometers_Driven)

\* prep.py:55
KeepRow(r) == Gt0(r.price) /\ Ge0(r.Kilometers_Driven)

\* prep.py:54-55
CleanTable(d) == SelectSeq(SelectSeq(d, LAMBDA r : ~IsNaN(r.price)), KeepRow)

\* prep.py:53-56
CleanRows ==
    /\ pc = "p_clean"
    /\ initial_size' = Len(df)
    /\ df' = CleanTable(df)
    /\ final_size' = Len(df')
    /\ pc' = "p_fit"
    /\ UNCHANGED <<columns, preprocessor, X_processed, prep_dir, error,
                   input_csv, applied, stageVars>>

Features(d) == [i \in 1..Len(d) |-> Restrict(d[i], FeatureCols)]

\* prep.py:80-83
FitTransform ==
    /\ pc = "p_fit"
    /\ LET X == Features(df)
       IN  IF CanFit(X)
           THEN /\ preprocessor' = Fit(X, 1..Len(X))
                /\ X_processed' =
                       [i \in 1..Len(X) |-> TransformRow(preprocessor', X[i])]
                /\ pc' = "p_save"
                /\ UNCHANGED error
           ELSE /\ error' = [error EXCEPT !.prep = "ValueError: fit"]
                /\ pc' = "p_error"
                /\ UNCHANGED <<preprocessor, X_processed>>
    /\ UNCHANGED <<columns, df, initial_size, final_size, prep_dir,
                   input_csv, applied, stageVars>>

SeqMin(s) == s[MinPos(s)]
SeqMax(s) == CHOOSE x \in SeqRange(s) : \A y \in SeqRange(s) : y <= x

Metadata(d, cols, X, yv) ==
    [original_shape |-> <<Len(d), Cardinality(cols)>>,
     processed_shape |-> <<Len(X), Len(X[1])>>,
     numeric_features |-> numeric_features,
     categorical_features |-> categorical_features,
     target_sum |-> SumSeq(yv), target_min |-> SeqMin(yv),
     target_max |-> SeqMax(yv)]

Target(d) == [i \in 1..Len(d) |-> d[i].price.v]

\* the files prep.py:90-114 writes
PrepArtifacts(d, cols, P, X) ==
    [f \in {"X_processed.npy", "y.npy", "preprocessor.pkl",
            "feature_names.npy", "metadata.json"} |->
        CASE f = "X_processed.npy" -> X
          [] f = "y.npy" -> Target(d)
          [] f = "preprocessor.pkl" -> P
          [] f = "feature_names.npy" -> FeatureNames(d)
          [] f = "metadata.json" -> Metadata(d, cols, X, Target(d))]

\* prep.py:86-114
SaveArtifacts ==
    /\ pc = "p_save"
    /\ prep_dir' = PrepArtifacts(df, columns, preprocessor, X_processed)
    /\ pc' = "p_done"
    /\ UNCHANGED <<columns, df, initial_size, final_size, preprocessor,
                   X_processed, error, input_csv, applied, stageVars>>

\* the order in which prep.py:90-114 writes its files
PrepWriteOrder ==
    <<"X_processed.npy", "y.npy", "preprocessor.pkl", "feature_names.npy",
      "metadata.json">>

\* the files a directory holds when the write after the k-th one fails
Written(files, order, k) ==
    [f \in {order[i] : i \in 1..k} |-> files[f]]

\* prep.py:86-114 when a write raises OSError: the files written before it
\* stay, preprocess_data raises
SaveArtifactsFails ==
    /\ pc = "p_save"
    /\ \E k \in 0..Len(PrepWriteOrder) - 1 :
         prep_dir' = Written(PrepArtifacts(df, columns, preprocessor,
                                           X_processed),
                             PrepWriteOrder, k)
    /\ error' = [error EXCEPT !.prep = "OSError"]
    /\ pc' = "p_error"
    /\ UNCHANGED <<columns, df, initial_size, final_size, preprocessor,
                   X_processed, input_csv, applied, stageVars>>

----------------------------------------------------------------------------
(* Applying the fitted transformer to a future row *)

NotApplied ==
    [called |-> FALSE, row |-> <<>>, ok |-> FALSE, out |-> <<>>,
     error |-> "", calls |-> 0, failed |-> FALSE]

ProbeRows ==
    { [Kilometers_Driven |-> Num(3), Mileage |-> m, Engine |-> Num(1500),
       Power |-> Num(100), Seats |-> Num(5), Segment |-> g] :
        m \in {NaN, Num(12)},
        g \in {Seg(SegmentUniverse[i]) : i \in 1..Len(SegmentUniverse)}
              \cup {NoSegment} }

\* future rows of a table that lacks a numeric or the categorical column
PartialProbeRows ==
    LET full == [Kilometers_Driven |-> Num(3), Mileage |-> Num(12),
                 Engine |-> Num(1500), Power |-> Num(100), Seats |-> Num(5),
                 Segment |-> Seg("luxury")]
    IN  {Restrict(full, FeatureCols \ {c}) : c \in {"Mileage", "Segment"}}

\* preprocessor.transform of a row that was not part of the fit; `failed`
\* tells whether an earlier call raised
ApplyTransformer ==
    /\ pc = "p_done"
    /\ applied.calls < MaxCalls
    /\ \E row \in ProbeRows \cup PartialProbeRows :
         LET r == Transform(preprocessor, row)
         IN  applied' = [called |-> TRUE, row |-> row, ok |-> r.ok,
                         out |-> r.out, error |-> r.error,
                         calls |-> applied.calls + 1,
                         failed |-> applied.failed
                                    \/ (applied.called /\ ~applied.ok)]
    /\ UNCHANGED <<pc, columns, df, initial_size, final_size, preprocessor,
                   X_processed, prep_dir, error, input_csv, stageVars>>

----------------------------------------------------------------------------
(* train_model: loading, splitting, baseline *)

PrepFiles ==
    {"X_processed.npy", "y.npy", "preprocessor.pkl", "feature_names.npy",
     "metadata.json"}

NoSplit == [made |-> FALSE, train |-> <<>>, test |-> <<>>]
NoMetrics == [n |-> 0, sse |-> 0, sae |-> 0, sst_n |-> 0]
NoBaseline ==
    [fitted |-> FALSE, fit_rows |-> {}, pred |-> <<>>, metrics |-> NoMetrics]

Abs(x) == IF x < 0 THEN -x ELSE x

\* the elements of a set of integers in ascending order
RECURSIVE Ascending(_)
Ascending(S) ==
    IF S = {} THEN <<>>
    ELSE LET m == CHOOSE x \in S : \A z \in S : x <= z
         IN  <<m>> \o Ascending(S \ {m})

\* train_test_split(test_size=0.2): n_test = ceil(0.2 * n), n_train the rest
TestSize(n) == (n + 4) \div 5
TrainSize(n) == n - TestSize(n)

\* Held-out metrics as exact sums: RMSE = sqrt(sse / n), MAE = sae / n,
\* R2 = 1 - n * sse / sst_n
Metrics(yv, test, pred) ==
    LET err == [i \in 1..Len(test) |-> pred[i] - yv[test[i]]]
        ys == [i \in 1..Len(test) |-> yv[test[i]]]
    IN  [n |-> Len(test),
         sse |-> SumSeq([i \in 1..Len(test) |-> err[i] * err[i]]),
         sae |-> SumSeq([i \in 1..Len(test) |-> Abs(err[i])]),
         sst_n |-> Len(test) * SumSeq([i \in 1..Len(test) |-> ys[i] * ys[i]])
                   - SumSeq(ys) * SumSeq(ys)]

\* A forest predicts averages of training targets: a value between the
\* least and the greatest training target
Predictions(yv, train, test) ==
    LET ty == [i \in 1..Len(train) |-> yv[train[i]]]
    IN  [1..Len(test) -> SeqMin(ty)..SeqMax(ty)]

\* np.load, slicing, transform: a plain matrix without column names
NdArray(rows) == [kind |-> "ndarray", columns |-> <<>>, rows |-> rows]

\* the rows of a matrix at the given positions
Take(X, at) == [i \in 1..Len(at) |-> X[at[i]]]

Width(X) ==
    IF X.kind = "DataFrame" THEN Len(X.columns)
    ELSE IF X.rows = <<>> THEN 0 ELSE Len(X.rows[1])

\* a Pipeline holds its transformer; a forest alone does not
IsPipeline(estimator) == "preprocessor" \in DOMAIN estimator

\* estimator.predict(X) at a line of the source
PredictCall(line, estimator, X) ==
    [line |-> line, pipeline |-> IsPipeline(estimator), kind |-> X.kind,
     width |-> Width(X)]

\* train.py main
StartTrain ==
    /\ pc \in {"p_done", "p_error"}
    /\ pc' = "t_load"
    /\ UNCHANGED <<columns, df, initial_size, final_size, preprocessor,
                   X_processed, prep_dir, error, input_csv, applied, stageVars>>

\* train.py:35-43
LoadProcessed ==
    /\ pc = "t_load"
    /\ IF PrepFiles \subseteq DOMAIN prep_dir
       THEN pc' = "t_split" /\ UNCHANGED error
       ELSE /\ error' = [error EXCEPT !.train = "FileNotFoundError"]
            /\ pc' = "t_error"
    /\ UNCHANGED <<columns, df, initial_size, final_size, preprocessor,
                   X_processed, prep_dir, input_csv, applied, stageVars>>

\* train.py:49-51; the rows random_state=42 places in the test split are
\* any TestSize(n) of them
TrainTestSplit ==
    /\ pc = "t_split"
    /\ LET n == Len(prep_dir["X_processed.npy"])
       IN  IF TrainSize(n) = 0
           THEN /\ error' = [error EXCEPT !.train = "ValueError: empty train set"]
                /\ pc' = "t_error"
                /\ UNCHANGED split
           ELSE /\ \E test \in SUBSET (1..n) :
                     /\ Cardinality(test) = TestSize(n)
                     /\ split' = [made |-> TRUE,
                                  train |-> Ascending((1..n) \ test),
                                  test |-> Ascending(test)]
                /\ pc' = "t_baseline"
                /\ UNCHANGED error
    /\ UNCHANGED <<columns, df, initial_size, final_size, preprocessor,
                   X_processed, prep_dir, input_csv, applied, cv_data,
                   baseline, search, best, model_dir, tracking, registry,
                   reg, runs, predict_calls, azure, parallel>>

\* train.py:62-74
FitBaseline ==
    /\ pc = "t_baseline"
    /\ \E pred \in Predictions(prep_dir["y.npy"], split.train, split.test) :
         baseline' = [fitted |-> TRUE,
                      fit_rows |-> SeqRange(split.train),
                      pred |-> pred,
                      metrics |-> Metrics(prep_dir["y.npy"], split.test, pred)]
    /\ predict_calls' = predict_calls \cup
           {PredictCall("train.py:70", baseline,
                        NdArray(Take(prep_dir["X_processed.npy"], split.test)))}
    /\ pc' = "t_search"
    /\ UNCHANGED <<columns, df, initial_size, final_size, preprocessor,
                   X_processed, prep_dir, error, input_csv, applied, cv_data,
                   split, search, best, model_dir, tracking, registry, reg,
                   runs, azure, parallel>>

----------------------------------------------------------------------------
(* train_model: the hyperparameter search *)

\* train.py:82-87; 0 stands for None
n_estimators == <<100, 200, 300>>
max_depth == <<0, 10, 20, 30>>
min_samples_split == <<2, 5, 10>>
min_samples_leaf == <<1, 2, 4>>
cv == 3

GridSize ==
    Len(n_estimators) * Len(max_depth) * Len(min_samples_split)
    * Len(min_samples_leaf)

\* ParameterGrid: keys in sorted order (max_depth, min_samples_leaf,
\* min_samples_split, n_estimators), the last key varying fastest; the
\* positions of the k-th combination on the four axes
GridPosition(k) ==
    LET i == k - 1
        ne == Len(n_estimators)
        ns == Len(min_samples_split)
        nl == Len(min_samples_leaf)
    IN  [n_estimators |-> (i % ne) + 1,
         min_samples_split |-> ((i \div ne) % ns) + 1,
         min_samples_leaf |-> ((i \div (ne * ns)) % nl) + 1,
         max_depth |-> (i \div (ne * ns * nl)) + 1]

ParameterGrid(k) ==
    LET g == GridPosition(k)
    IN  [n_estimators |-> n_estimators[g.n_estimators],
         min_samples_split |-> min_samples_split[g.min_samples_split],
         min_samples_leaf |-> min_samples_leaf[g.min_samples_leaf],
         max_depth |-> max_depth[g.max_depth]]

\* KFold(n_splits=cv) without shuffling: the first n % cv folds hold one row
\* more; fold i tests a contiguous block of positions
FoldStart(n, i) ==
    (i - 1) * (n \div cv) + (IF i - 1 < (n % cv) THEN i - 1 ELSE (n % cv))
FoldLen(n, i) == (n \div cv) + (IF i <= (n % cv) THEN 1 ELSE 0)
KFold(rows) ==
    [i \in 1..cv |->
        LET n == Len(rows)
            held == {rows[p] : p \in FoldStart(n, i) + 1
                                     ..FoldStart(n, i) + FoldLen(n, i)}
        IN  [test |-> held, train |-> SeqRange(rows) \ held]]

Loss(weight, at, wanted) == IF at = wanted THEN 0 ELSE weight

\* neg_root_mean_squared_error of combination k on fold f. The data decide
\* which value of each axis fits best and how much the others lose; scores
\* are multiples of 3 units, so the mean over the three folds is exact.
FoldScore(data, f, k) ==
    LET g == GridPosition(k)
    IN  - 3 * ( Loss(data.wDepth, g.max_depth, data.depth)
              + Loss(1, g.min_samples_leaf, data.leaf)
              + Loss(1, g.min_samples_split, data.split)
              + Loss(1, g.n_estimators, data.est[f]) )

Mean(scores) == SumSeq(scores) \div Len(scores)

CvEntry(data, k) ==
    LET scores == <<FoldScore(data, 1, k), FoldScore(data, 2, k),
                    FoldScore(data, 3, k)>>
    IN  [params |-> ParameterGrid(k),
         split_test_score |-> scores,
         mean_test_score |-> Mean(scores)]

\* cv_results_: one entry per combination, in the order of the grid
CvResults(data) == [k \in 1..GridSize |-> CvEntry(data, k)]

\* rankdata(-mean_test_score, method="min")
RankTestScore(results) ==
    [k \in 1..Len(results) |->
        1 + Cardinality({j \in 1..Len(results) :
              results[j].mean_test_score > results[k].mean_test_score})]

\* variant: the last of the combinations of least rank
ArgMinLast(r) ==
    CHOOSE i \in 1..Len(r) :
        /\ \A j \in 1..Len(r) : r[i] <= r[j]
        /\ \A j \in 1..Len(r) : j > i => r[i] < r[j]

\* numpy argmin: the first position of the least value
ArgMin(r) ==
    CHOOSE i \in 1..Len(r) :
        /\ \A j \in 1..Len(r) : r[i] <= r[j]
        /\ \A j \in 1..Len(r) : j < i => r[i] < r[j]

NoSearch ==
    [done |-> FALSE, cv_results |-> <<>>, folds |-> <<>>, best_index |-> 0]
NoBest ==
    [fitted |-> FALSE, params |-> <<>>, fit_rows |-> {},
     pred |-> <<>>, metrics |-> NoMetrics, improvement |-> <<>>]

\* variant: falls back to as many folds as there are rows
EnoughRowsAny(n) == n >= 1

\* KFold.split raises when n_splits exceeds the number of rows
EnoughRows(n) == n >= cv

\* train.py:90-102: grid_search.fit(X_train, y_train) and best_estimator_,
\* refitted on the whole training split
GridSearch ==
    /\ pc = "t_search"
    /\ IF EnoughRows(Len(split.train))
       THEN /\ \E results \in {CvResults(cv_data)} :
                 \E ranks \in {RankTestScore(results)} :
                   \E index \in {ArgMin(ranks)} :
                     /\ search' = [done |-> TRUE, cv_results |-> results,
                                   folds |-> KFold(split.train),
                                   best_index |-> index]
                     /\ best' = [NoBest EXCEPT
                                   !.fitted = TRUE,
                                   !.params = results[index].params,
                                   !.fit_rows = SeqRange(split.train)]
            /\ pc' = "t_eval"
            /\ UNCHANGED error
       ELSE /\ error' = [error EXCEPT
                            !.train = "ValueError: n_splits > n_samples"]
            /\ pc' = "t_error"
            /\ UNCHANGED <<search, best>>
    /\ UNCHANGED <<columns, df, initial_size, final_size, preprocessor,
                   X_processed, prep_dir, input_csv, applied, cv_data, split,
                   baseline, model_dir, tracking, registry, reg, runs,
                   predict_calls, azure, parallel>>

----------------------------------------------------------------------------
(* train_model: evaluation and the saved artifacts *)

\* (baseline_rmse - best_rmse) / baseline_rmse * 100 over numpy floats: a
\* zero divisor raises nothing and gives nan (0 / 0) or -inf (negative / 0)
ImprovementPercent(b, m) ==
    [k |-> IF b.sse = 0
           THEN (IF m.sse = 0 THEN "nan" ELSE "-inf")
           ELSE "finite",
     baseline_sse |-> b.sse, best_sse |-> m.sse, n |-> b.n]

NoTracking == [improvement_percent |-> <<>>, models |-> 0]

\* train.py:103-142: held-out metrics of the best model, the composed
\* pipeline, the metrics logged to the run
EvaluateBest ==
    /\ pc = "t_eval"
    /\ \E pred \in Predictions(prep_dir["y.npy"], split.train, split.test) :
         LET m == Metrics(prep_dir["y.npy"], split.test, pred)
         IN  /\ best' = [best EXCEPT
                            !.pred = pred, !.metrics = m,
                            !.improvement =
                                <<ImprovementPercent(baseline.metrics, m)>>]
             /\ tracking' = [tracking EXCEPT
                                !.improvement_percent =
                                    <<ImprovementPercent(baseline.metrics, m)>>]
    /\ predict_calls' = predict_calls \cup
           {PredictCall("train.py:103", best,
                        NdArray(Take(prep_dir["X_processed.npy"], split.test)))}
    /\ pc' = "t_signature"
    /\ UNCHANGED <<columns, df, initial_size, final_size, preprocessor,
                   X_processed, prep_dir, error, input_csv, applied, cv_data,
                   split, baseline, search, model_dir, registry, reg, runs,
                   azure, parallel>>

\* X_train[:5]
FirstFive(rows) == SubSeq(rows, 1, IF Len(rows) < 5 THEN Len(rows) ELSE 5)

\* train.py:145-146: pd.DataFrame(X_train[:5], columns=feature_names) needs
\* one name per column of the matrix; then best_model.predict(X_train[:5])
InferTrainSignature ==
    /\ pc = "t_signature"
    /\ IF Len(prep_dir["feature_names.npy"])
          = Len(prep_dir["X_processed.npy"][1])
       THEN /\ predict_calls' = predict_calls \cup
                   {PredictCall("train.py:146", best,
                                NdArray(Take(prep_dir["X_processed.npy"],
                                             FirstFive(split.train))))}
            /\ pc' = "t_save"
            /\ UNCHANGED error
       ELSE /\ error' = [error EXCEPT !.train = "ValueError: shape of columns"]
            /\ pc' = "t_error"
            /\ UNCHANGED predict_calls
    /\ UNCHANGED <<columns, df, initial_size, final_size, preprocessor,
                   X_processed, prep_dir, input_csv, applied, cv_data, split,
                   baseline, search, best, model_dir, tracking, registry,
                   reg, runs, azure, parallel>>

\* feature_importances_ paired with the names and sorted descending, equal
\* scores staying in column order: the top column first
FeatureImportance(names, top) ==
    <<[feature |-> names[top], column |-> top, importance |-> 1]>>
    \o [i \in 1..Len(names) - 1 |->
          LET c == IF i < top THEN i ELSE i + 1
          IN  [feature |-> names[c], column |-> c, importance |-> 0]]

\* the Pipeline([("preprocessor", ...), ("model", ...)]) of train.py:118-121
CompletePipeline(P, model) ==
    [preprocessor |-> P,
     model |-> [params |-> model.params, fit_rows |-> model.fit_rows]]

EvaluationResults(b, m, importance) ==
    [baseline_metrics |-> b.metrics,
     best_metrics |-> m.metrics,
     best_params |-> m.params,
     improvement_percent |-> m.improvement[1],
     feature_importance |-> importance]

ModelFiles ==
    {"model.pkl", "best_model.pkl", "preprocessor.pkl",
     "feature_importance.csv", "evaluation_results.json",
     "sample_predictions.csv"}

\* the files train.py:153-195 writes, the column `top` carrying the
\* greatest importance
ModelArtifacts(top) ==
    LET P == prep_dir["preprocessor.pkl"]
        importance == FeatureImportance(prep_dir["feature_names.npy"], top)
    IN  [f \in ModelFiles |->
            CASE f = "model.pkl" -> CompletePipeline(P, best)
              [] f = "best_model.pkl" ->
                     [params |-> best.params, fit_rows |-> best.fit_rows]
              [] f = "preprocessor.pkl" -> P
              [] f = "feature_importance.csv" -> importance
              [] f = "evaluation_results.json" ->
                     EvaluationResults(baseline, best, importance)
              [] f = "sample_predictions.csv" ->
                     [actual |-> [i \in 1..Len(split.test) |->
                                     prep_dir["y.npy"][split.test[i]]],
                      predicted |-> best.pred]]

\* train.py:149-195; one column of the forest, whichever, carries the
\* greatest importance
SaveModel ==
    /\ pc = "t_save"
    /\ \E top \in 1..Len(prep_dir["X_processed.npy"][1]) :
         model_dir' = ModelArtifacts(top)
    /\ pc' = "t_done"
    /\ UNCHANGED <<columns, df, initial_size, final_size, preprocessor,
                   X_processed, prep_dir, error, input_csv, applied, cv_data,
                   split, baseline, search, best, tracking, registry, reg,
                   runs, predict_calls, azure, parallel>>

\* the order in which train.py:153-195 writes its files
ModelWriteOrder ==
    <<"model.pkl", "best_model.pkl", "preprocessor.pkl",
      "feature_importance.csv", "evaluation_results.json",
      "sample_predictions.csv">>

\* train.py:149-195 when a write raises OSError: the files written before it
\* stay, train_model raises
SaveModelFails ==
    /\ pc = "t_save"
    /\ \E k \in 0..Len(ModelWriteOrder) - 1 :
         model_dir' = Written(ModelArtifacts(1), ModelWriteOrder, k)
    /\ error' = [error EXCEPT !.train = "OSError"]
    /\ pc' = "t_error"
    /\ UNCHANGED <<columns, df, initial_size, final_size, preprocessor,
                   X_processed, prep_dir, input_csv, applied, cv_data,
                   split, baseline, search, best, tracking, registry, reg,
                   runs, predict_calls, azure, parallel>>

----------------------------------------------------------------------------
(* register_model *)

model_name == "used-cars-price"

\* variant: the evaluation results are not among the files loaded first
RegisterFilesWithoutResults ==
    {"model.pkl", "best_model.pkl", "preprocessor.pkl",
     "feature_importance.csv"}

RegisterFiles ==
    {"model.pkl", "best_model.pkl", "preprocessor.pkl",
     "evaluation_results.json", "feature_importance.csv"}

\* register.py:77-84
sample_data ==
    [kind |-> "DataFrame",
     columns |-> <<"Kilometers_Driven", "Mileage", "Engine", "Power", "Seats",
                   "Segment">>,
     rows |-> << [Kilometers_Driven |-> Num(50000), Mileage |-> Num(15),
                  Engine |-> Num(1500), Power |-> Num(100), Seats |-> Num(5),
                  Segment |-> Seg("luxury")],
                 [Kilometers_Driven |-> Num(75000), Mileage |-> Num(20),
                  Engine |-> Num(2000), Power |-> Num(150), Seats |-> Num(7),
                  Segment |-> Seg("non-luxury segment")],
                 [Kilometers_Driven |-> Num(30000), Mileage |-> Num(12),
                  Engine |-> Num(1200), Power |-> Num(80), Seats |-> Num(5),
                  Segment |-> Seg("luxury")] >>]

\* preprocessor.transform(sample_data): a plain matrix without column names
TransformFrame(P, frame) ==
    [kind |-> "ndarray",
     columns |-> <<>>,
     rows |-> [i \in 1..Len(frame.rows) |-> Transform(P, frame.rows[i]).out]]

\* register.py:91: the input infer_signature is given
SignatureSample(raw, processed) == processed

\* variant: the forest is given the sample as it was written
ModelInputRaw(raw, processed) == raw

\* register.py:88: the input best_model.predict is given
ModelInput(raw, processed) == processed

\* infer_signature: named columns for a DataFrame, one unnamed tensor of the
\* matrix's width for an array
InferSchema(input) ==
    IF input.kind = "DataFrame"
    THEN [kind |-> "columns", columns |-> input.columns,
          width |-> Len(input.columns)]
    ELSE [kind |-> "tensor", columns |-> <<>>, width |-> Len(input.rows[1])]

NoReg ==
    [versions_before |-> 0, signature |-> <<>>, attempts |-> 0,
     rejected |-> 0, reported |-> 0, validated |-> FALSE, warned |-> FALSE,
     summary |-> <<>>]

\* what the registry stores for an accepted submission
NewVersion(pipeline, signature, run) ==
    [name |-> model_name, version |-> Len(registry) + 1, run |-> run,
     signature |-> signature, pipeline |-> pipeline]

\* register.py main
StartRegister ==
    /\ pc \in {"t_done", "t_error", "r_done", "r_error"}
    /\ runs < MaxRuns
    /\ runs' = runs + 1
    /\ reg' = [NoReg EXCEPT !.versions_before = Len(registry)]
    /\ error' = [error EXCEPT !.register = ""]
    /\ pc' = "r_load"
    /\ UNCHANGED <<columns, df, initial_size, final_size, preprocessor,
                   X_processed, prep_dir, input_csv, applied, cv_data, split,
                   baseline, search, best, model_dir, tracking, registry,
                   predict_calls, azure, parallel>>

\* register.py:27-39
LoadModel ==
    /\ pc = "r_load"
    /\ IF RegisterFiles \subseteq DOMAIN model_dir
       THEN pc' = "r_signature" /\ UNCHANGED error
       ELSE /\ error' = [error EXCEPT !.register = "FileNotFoundError"]
            /\ pc' = "r_error"
    /\ UNCHANGED <<columns, df, initial_size, final_size, preprocessor,
                   X_processed, prep_dir, input_csv, applied, stageVars>>

\* register.py:46-91
MakeSignature ==
    /\ pc = "r_signature"
    /\ LET processed ==
               TransformFrame(model_dir["preprocessor.pkl"], sample_data)
       IN  /\ reg' = [reg EXCEPT
                         !.signature =
                             <<InferSchema(SignatureSample(sample_data,
                                                           processed))>>]
           /\ predict_calls' = predict_calls \cup
                  {PredictCall("register.py:88", model_dir["best_model.pkl"],
                               ModelInput(sample_data, processed))}
    /\ pc' = "r_log_model"
    /\ UNCHANGED <<columns, df, initial_size, final_size, preprocessor,
                   X_processed, prep_dir, error, input_csv, applied, cv_data,
                   split, baseline, search, best, model_dir, tracking,
                   registry, runs, azure, parallel>>

\* register.py:94-100: log_model with registered_model_name registers the
\* logged pipeline; a registry failure propagates out of register_model
LogModel ==
    /\ pc = "r_log_model"
    /\ \E accepted \in BOOLEAN :
         IF accepted
         THEN /\ registry' =
                     Append(registry,
                            NewVersion(model_dir["model.pkl"],
                                       reg.signature[1], runs))
              /\ reg' = [reg EXCEPT !.attempts = @ + 1]
              /\ tracking' = [tracking EXCEPT !.models = @ + 1]
              /\ pc' = "r_register"
              /\ UNCHANGED error
         ELSE /\ reg' = [reg EXCEPT !.attempts = @ + 1, !.rejected = @ + 1]
              /\ error' = [error EXCEPT !.register = "MlflowException"]
              /\ pc' = "r_error"
              /\ UNCHANGED <<registry, tracking>>
    /\ UNCHANGED <<columns, df, initial_size, final_size, preprocessor,
                   X_processed, prep_dir, input_csv, applied, cv_data, split,
                   baseline, search, best, model_dir, runs,
                   predict_calls, azure, parallel>>

\* register.py:103-131: the artifacts are logged to the run, then
\* mlflow.register_model inside try/except
RegisterVersion ==
    /\ pc = "r_register"
    /\ \E accepted \in BOOLEAN :
         IF accepted
         THEN /\ registry' =
                     Append(registry,
                            NewVersion(model_dir["model.pkl"],
                                       reg.signature[1], runs))
              /\ reg' = [reg EXCEPT !.attempts = @ + 1]
         ELSE /\ reg' = [reg EXCEPT !.attempts = @ + 1, !.rejected = @ + 1,
                                    !.reported = @ + 1]
              /\ UNCHANGED registry
    /\ pc' = "r_validate"
    /\ UNCHANGED <<columns, df, initial_size, final_size, preprocessor,
                   X_processed, prep_dir, error, input_csv, applied, cv_data,
                   split, baseline, search, best, model_dir, tracking, runs,
                   predict_calls, azure, parallel>>

\* register.py:137-143: the logged pipeline is loaded and predicts on the
\* raw sample, inside try/except
ValidateModel ==
    /\ pc = "r_validate"
    /\ \E loaded \in BOOLEAN :
         /\ reg' = [reg EXCEPT !.validated = loaded]
         /\ predict_calls' =
                IF loaded
                THEN predict_calls \cup
                         {PredictCall("register.py:139", model_dir["model.pkl"],
                                      sample_data)}
                ELSE predict_calls
    /\ pc' = "r_thresholds"
    /\ UNCHANGED <<columns, df, initial_size, final_size, preprocessor,
                   X_processed, prep_dir, error, input_csv, applied, cv_data,
                   split, baseline, search, best, model_dir, tracking,
                   registry, runs, azure, parallel>>

\* register.py:149: rmse < 10.0 and r2 > 0.8, over the exact sums; r2_score
\* is nan for fewer than two rows, and 1 or 0 for a constant target
MeetsThresholds(m) ==
    /\ m.sse < 10 * 10 * m.n
    /\ m.n >= 2
    /\ \/ m.sst_n > 0 /\ 5 * m.n * m.sse < m.sst_n
       \/ m.sst_n = 0 /\ m.sse = 0

\* variant: a model below the thresholds is refused
ThresholdErrorStrict(meets) ==
    IF meets THEN "" ELSE "PerformanceThresholdError"

\* register.py:149-156: the exception the threshold check raises; both of
\* its branches only print
ThresholdError(meets) == ""

\* register.py:146-169
CheckAndReturn ==
    /\ pc = "r_thresholds"
    /\ LET results == model_dir["evaluation_results.json"]
           meets == MeetsThresholds(results.best_metrics)
       IN  IF ThresholdError(meets) = ""
           THEN /\ reg' = [reg EXCEPT
                              !.warned = ~meets,
                              !.summary =
                                  <<[model_name |-> model_name,
                                     run_id |-> runs,
                                     performance |-> results.best_metrics]>>]
                /\ pc' = "r_done"
                /\ UNCHANGED error
           ELSE /\ reg' = [reg EXCEPT !.warned = ~meets]
                /\ error' = [error EXCEPT
                                !.register = ThresholdError(meets)]
                /\ pc' = "r_error"
    /\ UNCHANGED <<columns, df, initial_size, final_size, preprocessor,
                   X_processed, prep_dir, input_csv, applied, cv_data,
                   split, baseline, search, best, model_dir, tracking,
                   registry, runs, predict_calls, azure, parallel>>

----------------------------------------------------------------------------
(* train_model_azure: the transformer is a step of the searched pipeline *)

NoAzure == [ran |-> FALSE, error |-> "", fit_rows |-> {}]

\* train_azure.py:36-37, 56
AzureFeatures == numeric_features \o categorical_features

\* the raw cells are not coerced: a textual number or a missing price makes
\* every fit of the search fail
AzureFits(rows) ==
    \A i \in 1..Len(rows) :
        /\ rows[i].price.k = "num"
        /\ \A c \in SeqRange(numeric_features) : rows[i][c].k # "str"

\* train_azure.py:25-133, run on the same input file once the registration
\* has ended
TrainModelAzure ==
    /\ pc \in {"r_done", "r_error"}
    /\ LET n == Len(input_csv.rows)
           fail(e) == /\ azure' = [NoAzure EXCEPT !.ran = TRUE, !.error = e]
                      /\ pc' = "a_error"
                      /\ UNCHANGED predict_calls
       IN  IF ~(SeqRange(AzureFeatures) \cup {"price"} \subseteq input_csv.columns)
           THEN fail("KeyError")
           ELSE IF TrainSize(n) = 0
           THEN fail("ValueError: empty train set")
           ELSE \E test \in SUBSET (1..n) :
                  /\ Cardinality(test) = TestSize(n)
                  /\ LET train == Ascending((1..n) \ test)
                         X == Features(input_csv.rows)
                     IN  IF ~EnoughRows(Len(train))
                         THEN fail("ValueError: n_splits > n_samples")
                         ELSE IF ~(AzureFits(Take(input_csv.rows, train))
                                   /\ CanFit(Take(X, train)))
                         THEN fail("ValueError: all fits failed")
                         ELSE /\ azure' = [ran |-> TRUE, error |-> "",
                                           fit_rows |-> SeqRange(train)]
                              /\ predict_calls' = predict_calls \cup
                                     {PredictCall(
                                         "train_azure.py:91",
                                         [preprocessor |->
                                              Fit(Take(X, train), SeqRange(train)),
                                          model |-> [fit_rows |-> SeqRange(train)]],
                                         [kind |-> "DataFrame",
                                          columns |-> AzureFeatures,
                                          rows |-> Take(X, Ascending(test))])}
                              /\ pc' = "a_done"
    /\ UNCHANGED <<columns, df, initial_size, final_size, preprocessor,
                   X_processed, prep_dir, error, input_csv, applied, cv_data,
                   split, baseline, search, best, model_dir, tracking,
                   registry, reg, runs, parallel>>

----------------------------------------------------------------------------
(* GridSearchCV.fit with n_jobs=-1: one task per combination and fold,     *)
(* dispatched in order to the workers, finished in any order                *)

\* train_azure.py:73-77; 0 stands for None
azure_n_estimators == <<100, 200>>
azure_max_depth == <<0, 10, 20>>
azure_min_samples_split == <<2, 5>>

\* ParameterGrid: keys in sorted order (model__max_depth,
\* model__min_samples_split, model__n_estimators), the last varying fastest
AzureGridPosition(k) ==
    LET i == k - 1
        ne == Len(azure_n_estimators)
        ns == Len(azure_min_samples_split)
    IN  [n_estimators |-> (i % ne) + 1,
         min_samples_split |-> ((i \div ne) % ns) + 1,
         max_depth |-> (i \div (ne * ns)) + 1]

AzureParameterGrid(k) ==
    LET g == AzureGridPosition(k)
    IN  [n_estimators |-> azure_n_estimators[g.n_estimators],
         min_samples_split |-> azure_min_samples_split[g.min_samples_split],
         max_depth |-> azure_max_depth[g.max_depth]]

AzureFoldScore(data, f, k) ==
    LET g == AzureGridPosition(k)
    IN  - 3 * ( Loss(data.wDepth, g.max_depth, data.depth)
              + Loss(1, g.min_samples_split, data.split)
              + Loss(1, g.n_estimators, data.est[f]) )

\* the place of a result that has not arrived; scores are never positive
NoScore == 1

\* the number of combinations of the grid
Candidates(grid) ==
    IF grid = "train"
    THEN GridSize
    ELSE Len(azure_n_estimators) * Len(azure_max_depth)
         * Len(azure_min_samples_split)

\* product(enumerate(candidate_params), enumerate(cv.split(X, y))): there
\* are Candidates(grid) * cv tasks, the folds of a combination consecutive;
\* _fit_and_score of task t
TaskScore(grid, data, t) ==
    LET candidate == ((t - 1) \div cv) + 1
        fold == ((t - 1) % cv) + 1
    IN  IF grid = "train"
        THEN FoldScore(data, fold, candidate)
        ELSE AzureFoldScore(data, fold, candidate)

NoParallel ==
    [grid |-> "", next |-> 1, running |-> {}, out |-> <<>>,
     reordered |-> FALSE, best_index |-> 0]

StartParallel(grid) ==
    [NoParallel EXCEPT !.grid = grid,
                       !.out = [t \in 1..Candidates(grid) * cv |-> NoScore]]

\* variant: a result is appended when its task finishes
CollectAsFinished(out, t, score) ==
    LET free == CHOOSE i \in 1..Len(out) :
                    out[i] = NoScore /\ \A j \in 1..i - 1 : out[j] # NoScore
    IN  [out EXCEPT ![free] = score]

\* Parallel returns the results in the order of submission: the result of
\* task t is the t-th of the list
Collect(out, t, score) == [out EXCEPT ![t] = score]

\* a free worker takes the next task
Dispatch ==
    /\ pc \in {"t_search", "a_search"}
    /\ parallel.grid # ""
    /\ Cardinality(parallel.running) < MaxWorkers
    /\ parallel.next <= Candidates(parallel.grid) * cv
    /\ parallel' = [parallel EXCEPT !.running = @ \cup {parallel.next},
                                    !.next = @ + 1]
    /\ UNCHANGED <<pc, columns, df, initial_size, final_size, preprocessor,
                   X_processed, prep_dir, error, input_csv, applied, cv_data,
                   split, baseline, search, best, model_dir, tracking,
                   registry, reg, runs, predict_calls, azure>>

\* a running task, whichever, finishes and its score is collected
FinishTask ==
    /\ pc \in {"t_search", "a_search"}
    /\ \E t \in parallel.running :
         parallel' =
             [parallel EXCEPT
                 !.running = @ \ {t},
                 !.out = Collect(@, t, TaskScore(parallel.grid, cv_data, t)),
                 !.reordered = @ \/ \E u \in parallel.running : u < t]
    /\ UNCHANGED <<pc, columns, df, initial_size, final_size, preprocessor,
                   X_processed, prep_dir, error, input_csv, applied, cv_data,
                   split, baseline, search, best, model_dir, tracking,
                   registry, reg, runs, predict_calls, azure>>

\* _format_results: the list is cut into one row of cv scores per
\* combination
MergeResults(grid, out) ==
    [k \in 1..Candidates(grid) |->
        LET scores == [f \in 1..cv |-> out[(k - 1) * cv + f]]
        IN  [params |-> IF grid = "train" THEN ParameterGrid(k)
                        ELSE AzureParameterGrid(k),
             split_test_score |-> scores,
             mean_test_score |-> Mean(scores)]]

\* every task has finished: the results are merged and the best
\* combination is selected (train.py:99-102, train_azure.py:88-90)
SelectBest ==
    /\ pc \in {"t_search", "a_search"}
    /\ parallel.grid # ""
    /\ parallel.next > Candidates(parallel.grid) * cv
    /\ parallel.running = {}
    /\ \E results \in {MergeResults(parallel.grid, parallel.out)} :
         \E index \in {ArgMin(RankTestScore(results))} :
           /\ parallel' = [parallel EXCEPT !.best_index = index]
           /\ IF parallel.grid = "train"
              THEN /\ search' = [done |-> TRUE, cv_results |-> results,
                                 folds |-> KFold(split.train),
                                 best_index |-> index]
                   /\ best' = [NoBest EXCEPT
                                 !.fitted = TRUE,
                                 !.params = results[index].params,
                                 !.fit_rows = SeqRange(split.train)]
                   /\ pc' = "t_eval"
                   /\ UNCHANGED azure
              ELSE /\ azure' = [ran |-> TRUE, error |-> "",
                                fit_rows |-> SeqRange(split.train)]
                   /\ pc' = "a_done"
                   /\ UNCHANGED <<search, best>>
    /\ UNCHANGED <<columns, df, initial_size, final_size, preprocessor,
                   X_processed, prep_dir, error, input_csv, applied, cv_data,
                   split, baseline, model_dir, tracking, registry, reg, runs,
                   predict_calls>>

----------------------------------------------------------------------------
(* Initial values of the later stages *)

\* what the data decide of the fold scores: the best value of each axis and
\* the loss of the others in depth, the best tree count fold by fold
DataProfiles ==
    [depth : 1..Len(max_depth), leaf : 1..Len(min_samples_leaf),
     split : 1..Len(min_samples_split),
     est : [1..cv -> 1..Len(n_estimators)],
     wDepth : 0..MaxLoss]

PipelineProfiles ==
    { [depth |-> 2, leaf |-> 1, split |-> 3, est |-> <<2, 2, 3>>,
       wDepth |-> 1],
      [depth |-> 4, leaf |-> 2, split |-> 1, est |-> <<1, 2, 3>>,
       wDepth |-> 0] }

NoStageYet ==
    /\ cv_data \in PipelineProfiles
    /\ split = NoSplit
    /\ baseline = NoBaseline
    /\ search = NoSearch
    /\ best = NoBest
    /\ model_dir = EmptyDir
    /\ tracking = NoTracking
    /\ registry = <<>>
    /\ reg = NoReg
    /\ runs = 0
    /\ predict_calls = {}
    /\ azure = NoAzure
    /\ parallel = NoParallel

----------------------------------------------------------------------------
(* Specification of the preprocessing stage over raw tables *)

InitPrep ==
    /\ pc = "p_load"
    /\ \E cols \in ColumnSets, t \in Tables(RowCatalogue, MaxPrepRows) :
         input_csv = [columns |-> cols,
                      rows |-> [i \in 1..Len(t) |-> Restrict(t[i], cols)]]
    /\ columns = {}
    /\ df = <<>>
    /\ initial_size = Unset
    /\ final_size = Unset
    /\ preprocessor = Unfitted
    /\ X_processed = <<>>
    /\ prep_dir = EmptyDir
    /\ error = NoError
    /\ applied = NotApplied
    /\ NoStageYet

NextPrep ==
    \/ ReadCsv
    \/ ValidateColumns
    \/ ConvertNumeric
    \/ CleanRows
    \/ FitTransform
    \/ SaveArtifacts
    \/ SaveArtifactsFails
    \/ ApplyTransformer

SpecPrep == InitPrep /\ [][NextPrep]_vars

----------------------------------------------------------------------------
(* Claims about the preprocessing stage (checked under SpecPrep) *)

Cleaned ==
    \/ pc \in {"p_fit", "p_save", "p_done"}
    \/ pc = "p_error" /\ error.prep = "ValueError: fit"

\* C1: after the cleaning step every surviving row has price > 0 and
\* Kilometers_Driven >= 0, and the row count after cleaning is not greater
\* than the row count before it.
C1_CleanedRowsValid ==
    Cleaned =>
        /\ \A i \in 1..Len(df) :
               /\ df[i].price.k = "num" /\ df[i].price.v > 0
               /\ df[i].Kilometers_Driven.k = "num"
               /\ df[i].Kilometers_Driven.v >= 0
        /\ final_size = Len(df)
        /\ initial_size = Len(input_csv.rows)
        /\ final_size <= initial_size

C1_Witness ==
    pc = "p_done" /\ final_size > 0 /\ final_size < initial_size

\* C2: when the input table lacks a required column, preprocess_data ends
\* with the missing-column error before any cell is coerced, any row is
\* removed or the transformer is fitted, and it writes no artifact.
C2_MissingColumnFailsFirst ==
    (required_cols \ input_csv.columns # {} /\ pc \notin {"p_load", "p_validate"})
    =>  /\ pc = "p_error"
        /\ error.prep = "ValueError: Missing required columns"
        /\ df = input_csv.rows
        /\ initial_size = Unset /\ final_size = Unset
        /\ ~preprocessor.fitted
        /\ X_processed = <<>>
        /\ prep_dir = EmptyDir

C2_Witness ==
    /\ pc = "p_error"
    /\ "price" \notin input_csv.columns
    /\ Len(input_csv.rows) = MaxPrepRows

UnseenProbe ==
    /\ applied.called
    /\ FeatureCols \subseteq DOMAIN applied.row
    /\ applied.row.Segment.k = "cat"
    /\ applied.row.Segment.s \notin SeqRange(preprocessor.categories)

\* C3: transforming a row whose Segment was not observed at fit time
\* succeeds, gives 0 in every encoded Segment column, and gives as many
\* columns as the rows with known categories have.
C3_UnseenCategoryAllZero ==
    UnseenProbe =>
        /\ applied.ok
        /\ Len(applied.out) = Len(X_processed[1])
        /\ Len(applied.out) =
               Len(preprocessor.num_kept) + Len(preprocessor.categories)
        /\ \A i \in 1..Len(applied.out) :
               i > Len(preprocessor.num_kept) => applied.out[i] = 0

C3_Witness ==
    /\ UnseenProbe
    /\ Len(preprocessor.categories) = 2
    /\ applied.row.Segment.s = "non-luxury segment"

\* C16: a transform of a row that lacks a column the transformer was fitted
\* on raises the missing-columns error and gives no output, a transform of
\* a row with every fitted column gives a row of the fitted width, also
\* after an earlier call has failed, and the transformer stays the one that
\* was fitted and saved.
C16_MissingColumnFailsThatCallOnly ==
    applied.called =>
        /\ ~(FeatureCols \subseteq DOMAIN applied.row) =>
               /\ ~applied.ok
               /\ applied.out = <<>>
               /\ applied.error = "ValueError: columns are missing"
        /\ FeatureCols \subseteq DOMAIN applied.row =>
               /\ applied.ok
               /\ applied.error = ""
               /\ Len(applied.out) = Len(X_processed[1])
        /\ preprocessor = prep_dir["preprocessor.pkl"]
        /\ preprocessor.fitted

C16_Witness ==
    /\ applied.failed
    /\ applied.ok
    /\ Len(applied.out) = 7

\* C17: the saved feature names are, in order, the five numeric columns and
\* then one name per fitted Segment category in vocabulary order: as many
\* names as the transformed matrix has columns, the i-th naming the i-th.
C17_FeatureNamesFollowColumns ==
    "feature_names.npy" \in DOMAIN prep_dir =>
        LET names == prep_dir["feature_names.npy"]
            P == preprocessor
        IN  /\ Len(names) = Len(X_processed[1])
            /\ names =
                   [i \in 1..Len(P.num_kept) |-> FeatureName(P.num_kept[i], "")]
                   \o [i \in 1..Len(P.categories) |->
                          FeatureName("Segment", P.categories[i])]

\* C15: after the cleaning step every surviving row has a positive price
\* and a value of at least 0 in each of Kilometers_Driven, Mileage, Engine,
\* Power and Seats.
C15_CleanRecordsNonNegative ==
    Cleaned =>
        \A i \in 1..Len(df) :
            /\ Gt0(df[i].price)
            /\ \A c \in SeqRange(numeric_features) : Ge0(df[i][c])

----------------------------------------------------------------------------
(* Specification of the whole pipeline: prep, then train, then register *)

RowA == RawRow(Num(5), Num(15), Num(2), Seg("luxury"))
RowB == RawRow(Num(9), Num(20), Num(3), Seg("suv"))

\* n clean records, the first a of one kind and the others of another
PipelineTable(n, a) == [i \in 1..n |-> IF i <= a THEN RowA ELSE RowB]

Init ==
    /\ pc = "p_load"
    /\ \E n \in 0..MaxRows, a \in 0..MaxRows :
         /\ a <= n
         /\ input_csv = [columns |-> required_cols,
                         rows |-> PipelineTable(n, a)]
    /\ columns = {}
    /\ df = <<>>
    /\ initial_size = Unset
    /\ final_size = Unset
    /\ preprocessor = Unfitted
    /\ X_processed = <<>>
    /\ prep_dir = EmptyDir
    /\ error = NoError
    /\ applied = NotApplied
    /\ NoStageYet

Next ==
    \/ ReadCsv
    \/ ValidateColumns
    \/ ConvertNumeric
    \/ CleanRows
    \/ FitTransform
    \/ SaveArtifacts
    \/ SaveArtifactsFails
    \/ StartTrain
    \/ LoadProcessed
    \/ TrainTestSplit
    \/ FitBaseline
    \/ GridSearch
    \/ EvaluateBest
    \/ InferTrainSignature
    \/ SaveModel
    \/ SaveModelFails
    \/ StartRegister
    \/ LoadModel
    \/ MakeSignature
    \/ LogModel
    \/ RegisterVersion
    \/ ValidateModel
    \/ CheckAndReturn
    \/ TrainModelAzure

Spec == Init /\ [][Next]_vars

----------------------------------------------------------------------------
(* Specification of the search stage over the data's score profiles *)

\* train_model at the call of grid_search.fit, for n clean records: the
\* training split has two rows (n = 3) or three (n = 4)
AtSearch(n, data) ==
        LET rows == PipelineTable(n, n \div 2)
            d == CleanTable([i \in 1..n |-> ConvertRow(rows[i])])
            X == Features(d)
            P == Fit(X, 1..Len(X))
            XP == [i \in 1..Len(X) |-> TransformRow(P, X[i])]
            train == Ascending(1..TrainSize(n))
            test == Ascending(TrainSize(n) + 1..n)
            pred == [i \in 1..Len(test) |-> Target(d)[train[1]]]
        IN  /\ pc = "t_search"
            /\ input_csv = [columns |-> required_cols, rows |-> rows]
            /\ columns = required_cols
            /\ df = d
            /\ initial_size = n
            /\ final_size = Len(d)
            /\ preprocessor = P
            /\ X_processed = XP
            /\ prep_dir = PrepArtifacts(d, required_cols, P, XP)
            /\ error = NoError
            /\ applied = NotApplied
            /\ cv_data = data
            /\ split = [made |-> TRUE, train |-> train, test |-> test]
            /\ baseline = [fitted |-> TRUE, fit_rows |-> SeqRange(train),
                           pred |-> pred,
                           metrics |-> Metrics(Target(d), test, pred)]
            /\ search = NoSearch
            /\ best = NoBest
            /\ model_dir = EmptyDir
            /\ tracking = NoTracking
            /\ registry = <<>>
            /\ reg = NoReg
            /\ runs = 0
            /\ predict_calls =
                   {PredictCall("train.py:70", NoBaseline,
                                NdArray(Take(XP, test)))}
            /\ azure = NoAzure

InitSearch ==
    \E n \in {cv, cv + 1}, data \in DataProfiles :
        AtSearch(n, data) /\ parallel = NoParallel

NextSearch == GridSearch

SpecSearch == InitSearch /\ [][NextSearch]_vars

----------------------------------------------------------------------------
(* Specification of the registration stage over trained models *)

\* prices of the held-out records and what the forests predict for them
HeldOutPrices == {2, 3, 40}
HeldOutPredictions == {2, 40}

\* a clean record of the given price
RowPriced(price, i) ==
    RawRow(Num(5 + i), Num(15), Num(price),
           Seg(IF i % 2 = 0 THEN "luxury" ELSE "suv"))

\* train_model at its return, for 5 * k clean records of which the last k
\* are held out: the training records cost 2 or 40, so a forest predicts
\* between 2 and 40
InitRegister ==
    \E k \in 1..MaxHeldOut :
      \E yt \in [1..k -> HeldOutPrices], pred \in [1..k -> HeldOutPredictions] :
        LET n == 5 * k
            rows == [i \in 1..n |->
                        IF i <= 4 * k
                        THEN RowPriced(IF i % 2 = 0 THEN 2 ELSE 40, i)
                        ELSE RowPriced(yt[i - 4 * k], i)]
            X == Features(rows)
            P == Fit(X, 1..n)
            XP == [i \in 1..n |-> TransformRow(P, X[i])]
            train == Ascending(1..4 * k)
            test == Ascending(4 * k + 1..n)
            data == CHOOSE c \in PipelineProfiles : c.wDepth = 1
            results == CvResults(data)
            m == Metrics(Target(rows), test, pred)
        IN  /\ pc = "t_done"
            /\ input_csv = [columns |-> required_cols, rows |-> rows]
            /\ columns = required_cols
            /\ df = rows
            /\ initial_size = n
            /\ final_size = n
            /\ preprocessor = P
            /\ X_processed = XP
            /\ prep_dir = PrepArtifacts(rows, required_cols, P, XP)
            /\ error = NoError
            /\ applied = NotApplied
            /\ cv_data = data
            /\ split = [made |-> TRUE, train |-> train, test |-> test]
            /\ baseline = [fitted |-> TRUE, fit_rows |-> SeqRange(train),
                           pred |-> pred, metrics |-> m]
            /\ search = [done |-> TRUE, cv_results |-> results,
                         folds |-> KFold(train),
                         best_index |-> ArgMin(RankTestScore(results))]
            /\ best = [fitted |-> TRUE,
                       params |-> results[search.best_index].params,
                       fit_rows |-> SeqRange(train), pred |-> pred,
                       metrics |-> m,
                       improvement |-> <<ImprovementPercent(m, m)>>]
            /\ tracking = [improvement_percent |-> best.improvement,
                           models |-> 0]
            /\ model_dir = ModelArtifacts(1)
            /\ registry = <<>>
            /\ reg = NoReg
            /\ runs = 0
            /\ predict_calls =
                   {PredictCall("train.py:70", NoBaseline,
                                NdArray(Take(XP, test))),
                    PredictCall("train.py:103", NoBest,
                                NdArray(Take(XP, test))),
                    PredictCall("train.py:146", NoBest,
                                NdArray(Take(XP, FirstFive(train))))}
            /\ azure = NoAzure
            /\ parallel = NoParallel

NextRegister ==
    \/ StartRegister
    \/ LoadModel
    \/ MakeSignature
    \/ LogModel
    \/ RegisterVersion
    \/ ValidateModel
    \/ CheckAndReturn

SpecRegister == InitRegister /\ [][NextRegister]_vars

----------------------------------------------------------------------------
(* Claims about the search stage (checked under SpecSearch) *)

GridCombinations ==
    [n_estimators : SeqRange(n_estimators), max_depth : SeqRange(max_depth),
     min_samples_split : SeqRange(min_samples_split),
     min_samples_leaf : SeqRange(min_samples_leaf)]

\* C4: the search scores each of the 108 combinations of the grid once, on
\* three folds that partition the training split and hold no held-out row;
\* the selected combination has the greatest fold-averaged score and is the
\* first of the grid order among those that share it.
C4_SearchSelectsFirstBest ==
    search.done =>
        LET r == search.cv_results
            b == search.best_index
        IN  /\ Len(r) = 3 * 4 * 3 * 3
            /\ \A c \in GridCombinations :
                   Cardinality({k \in 1..Len(r) : r[k].params = c}) = 1
            /\ \A k \in 1..Len(r) :
                   /\ Len(r[k].split_test_score) = 3
                   /\ 3 * r[k].mean_test_score
                          = r[k].split_test_score[1] + r[k].split_test_score[2]
                            + r[k].split_test_score[3]
            /\ Len(search.folds) = 3
            /\ \A f \in 1..Len(search.folds) :
                   /\ search.folds[f].test # {}
                   /\ search.folds[f].test \cap search.folds[f].train = {}
                   /\ search.folds[f].test \cup search.folds[f].train
                          = SeqRange(split.train)
                   /\ search.folds[f].test \cap SeqRange(split.test) = {}
            /\ \A f, g \in 1..Len(search.folds) :
                   f # g => search.folds[f].test \cap search.folds[g].test = {}
            /\ b \in 1..Len(r)
            /\ \A k \in 1..Len(r) :
                   /\ r[k].mean_test_score <= r[b].mean_test_score
                   /\ k < b => r[k].mean_test_score < r[b].mean_test_score
            /\ best.fitted /\ best.params = r[b].params
            /\ best.fit_rows = SeqRange(split.train)

C4_Witness ==
    /\ search.done
    /\ search.best_index > 1
    /\ \E k \in 1..Len(search.cv_results) :
          /\ k > search.best_index
          /\ search.cv_results[k].mean_test_score
                 = search.cv_results[search.best_index].mean_test_score

----------------------------------------------------------------------------
(* Claims about the pipeline (checked under Spec) *)

BeforeSearchEnds ==
    {"p_load", "p_validate", "p_convert", "p_clean", "p_fit", "p_save",
     "p_done", "p_error", "t_load", "t_split", "t_baseline", "t_search"}

\* C5: when the training split of the loaded table has fewer than 3 rows,
\* train_model ends in an error raised by the split or by the search: no
\* search result and no best model exist and no model artifact is written;
\* and a search that ran has three non-empty folds.
C5_TooFewRowsFails ==
    /\ (/\ pc \notin BeforeSearchEnds
        /\ PrepFiles \subseteq DOMAIN prep_dir
        /\ LET n == Len(prep_dir["y.npy"])
           IN  n - ((n + 4) \div 5) < 3)
       =>  /\ error.train \in {"ValueError: empty train set",
                               "ValueError: n_splits > n_samples"}
           /\ ~search.done
           /\ ~best.fitted
           /\ model_dir = EmptyDir
    /\ search.done =>
           /\ Len(search.folds) = 3
           /\ \A f \in 1..Len(search.folds) :
                  search.folds[f].test # {} /\ search.folds[f].train # {}

C5_Witness ==
    /\ pc = "t_error"
    /\ error.train = "ValueError: n_splits > n_samples"
    /\ Len(split.train) = 2

\* C6: when the registry rejects a registration attempt of register_model,
\* the run still completes and returns its summary.
C6_RegistrationFailureNonFatal ==
    (reg.rejected > 0 /\ pc \in {"r_done", "r_error"})
    => (pc = "r_done" /\ reg.summary # <<>>)

\* C7: when the baseline RMSE is zero, the improvement that train_model
\* logs and writes to evaluation_results.json is neither NaN nor infinite.
C7_ImprovementNeverNaNOrInfinite ==
    (/\ "evaluation_results.json" \in DOMAIN model_dir
     /\ baseline.metrics.sse = 0)
    =>  /\ model_dir["evaluation_results.json"].improvement_percent.k
               \notin {"nan", "inf", "-inf"}
        /\ tracking.improvement_percent[1].k \notin {"nan", "inf", "-inf"}

\* C8: no row of the held-out split is among the rows the packaged Feature
\* Transformer was fitted on.
C8_TransformerFittedOnTrainingRowsOnly ==
    "model.pkl" \in DOMAIN model_dir =>
        model_dir["model.pkl"].preprocessor.fit_rows
            \cap SeqRange(split.test) = {}

\* C9: the input schema registered with the pipeline names exactly the raw
\* columns the Feature Transformer was fitted on.
C9_SchemaNamesRawColumns ==
    \A i \in 1..Len(registry) :
        registry[i].signature.columns
            = numeric_features \o categorical_features

\* C10: a run of register_model in which the registry accepts every
\* submission adds exactly one version.
C10_OneVersionPerRun ==
    (pc = "r_done" /\ reg.rejected = 0)
    => Len(registry) = reg.versions_before + 1

PrepStage ==
    {"p_load", "p_validate", "p_convert", "p_clean", "p_fit", "p_save",
     "p_done", "p_error"}
RegistryStage ==
    {"r_signature", "r_log_model", "r_register", "r_validate", "r_thresholds",
     "r_done"}

TransformationArtifacts ==
    {"X_processed.npy", "y.npy", "preprocessor.pkl", "feature_names.npy",
     "metadata.json"}
TrainingArtifacts ==
    {"model.pkl", "best_model.pkl", "preprocessor.pkl",
     "feature_importance.csv", "evaluation_results.json"}

ForestAlone(c) == ~c.pipeline

\* C12: a forest alone is only ever given a matrix the Feature Transformer
\* produced, as wide as the matrix it was fitted on, in train_model and in
\* register_model; every table of raw columns that is predicted on is given
\* to a pipeline of transformer and forest, in register_model's validation
\* and in train_model_azure.
C12_ModelNeverGivenRawInput ==
    \A c \in predict_calls :
        /\ ForestAlone(c) =>
               /\ c.kind = "ndarray"
               /\ c.width = Len(preprocessor.num_kept)
                               + Len(preprocessor.categories)
        /\ c.kind = "DataFrame" => c.pipeline
        /\ c.line \in {"train.py:70", "train.py:103", "train.py:146",
                        "register.py:88"} <=> ForestAlone(c)

C12_Witness ==
    /\ \E c \in predict_calls : c.line = "register.py:88"
    /\ \E c \in predict_calls : c.line = "register.py:139"
    /\ \E c \in predict_calls : c.line = "train_azure.py:91"
    /\ \E c \in predict_calls : c.line = "train.py:146"

----------------------------------------------------------------------------
(* Claims about the registration stage (checked under SpecRegister) *)

RegistrationStepsRan == pc \in {"r_done", "r_error"} /\ reg.attempts = 2

\* C13: a run of register_model that went through its registration steps
\* returns its summary of name, run and metrics without raising, whether
\* the metrics meet the thresholds (RMSE < 10.0 and R2 > 0.8) or not; the
\* registry holds what the registration steps added, and a warning is
\* given exactly when a threshold is missed.
C13_ThresholdFailureOnlyWarns ==
    RegistrationStepsRan =>
        LET m == model_dir["evaluation_results.json"].best_metrics
        IN  /\ pc = "r_done"
            /\ error.register = ""
            /\ reg.summary = <<[model_name |-> model_name, run_id |-> runs,
                                performance |-> m]>>
            /\ Len(registry)
                   = reg.versions_before + reg.attempts - reg.rejected
            /\ reg.warned <=>
                   ~(/\ m.sse < 100 * m.n
                     /\ m.n >= 2
                     /\ \/ m.sst_n > 0 /\ 5 * m.n * m.sse < m.sst_n
                        \/ m.sst_n = 0 /\ m.sse = 0)

C13_Witness ==
    /\ pc = "r_done"
    /\ reg.warned
    /\ reg.summary # <<>>
    /\ model_dir["evaluation_results.json"].best_metrics.sse > 0
    /\ model_dir["evaluation_results.json"].best_metrics.sse
           < 100 * model_dir["evaluation_results.json"].best_metrics.n
    /\ Len(registry) > reg.versions_before

----------------------------------------------------------------------------
(* Specification of the coercion of single cells *)

TextAlphabet == {"-", "+", ".", "e", "E", "0", "1", "x"}
Texts(n) == UNION {[1..m -> TextAlphabet] : m \in 0..n}

\* missing, numeric and textual cells
Cells ==
    {NaN} \cup {Num(n) : n \in {-1, 0, 7}}
    \cup {Str(t) : t \in Texts(MaxText)}

\* preprocess_data on a table of one record whose price is the cell
InitCells ==
    /\ pc = "p_load"
    /\ \E x \in Cells :
         input_csv = [columns |-> required_cols,
                      rows |-> <<RawRow(Num(5), Num(15), x, Seg("luxury"))>>]
    /\ columns = {}
    /\ df = <<>>
    /\ initial_size = Unset
    /\ final_size = Unset
    /\ preprocessor = Unfitted
    /\ X_processed = <<>>
    /\ prep_dir = EmptyDir
    /\ error = NoError
    /\ applied = NotApplied
    /\ NoStageYet

NextCells ==
    \/ ReadCsv
    \/ ValidateColumns
    \/ ConvertNumeric
    \/ CleanRows

SpecCells == InitCells /\ [][NextCells]_vars

----------------------------------------------------------------------------
(* Claims about the coercion of cells (checked under SpecCells) *)

\* texts of digits and at most one point that end in a digit
IsMantissa(u) ==
    /\ u # <<>>
    /\ IsDigit(u[Len(u)])
    /\ \A i \in 1..Len(u) : IsDigit(u[i]) \/ u[i] = "."
    /\ Cardinality({i \in 1..Len(u) : u[i] = "."}) <= 1

\* nothing, or e or E, an optional sign and at least one digit
IsExponent(u) ==
    \/ u = <<>>
    \/ /\ Len(u) >= 2
       /\ IsExpLetter(u[1])
       /\ \E g \in {0, 1} :
             /\ g = 1 => IsSign(u[2])
             /\ Len(u) >= 2 + g
             /\ \A i \in 2 + g..Len(u) : IsDigit(u[i])

\* the end of the mantissa of a text of the pattern whose sign has g characters
MantissaEnds(t, g) ==
    {k \in g..Len(t) :
        /\ IsMantissa(SubSeq(t, g + 1, k))
        /\ IsExponent(SubSeq(t, k + 1, Len(t)))}

\* the texts of a sign, a decimal and an exponent, the first and the last
\* optional
InPattern(t) ==
    \E g \in {0, 1} :
        /\ g = 1 => (t # <<>> /\ IsSign(t[1]))
        /\ MantissaEnds(t, g) # {}

\* the number a text of the pattern denotes
Denoted(t) ==
    LET g == IF IsSign(t[1]) THEN 1 ELSE 0
        k == CHOOSE k \in MantissaEnds(t, g) : TRUE
        mant == SubSeq(t, g + 1, k)
        digits == SelectSeq(mant, IsDigit)
        point == {i \in 1..Len(mant) : mant[i] = "."}
        decimals == IF point = {} THEN 0
                    ELSE Len(mant) - (CHOOSE i \in point : TRUE)
        expo == SelectSeq(SubSeq(t, k + 1, Len(t)), IsDigit)
        esign == IF \E i \in k + 1..Len(t) : t[i] = "-" THEN -1 ELSE 1
    IN  Dec((IF t[1] = "-" THEN -1 ELSE 1)
                * DigitsValue(digits, 1, Len(digits)),
            esign * DigitsValue(expo, 1, Len(expo)) - decimals)

\* the substrings of s that are in the pattern, as <<first, last>>
Occurrences(s) ==
    {ij \in (1..Len(s)) \X (1..Len(s)) :
        ij[1] <= ij[2] /\ InPattern(SubSeq(s, ij[1], ij[2]))}

\* C14: the coercion step never fails on a cell; a missing cell stays
\* missing, a number stays the same number, a text that holds a substring
\* of the signed-decimal pattern becomes the number denoted by the one that
\* starts leftmost (the longest of those), and any other text becomes the
\* missing value.
C14_ExtractFloatTotal ==
    /\ error.prep # "ValueError: float"
    /\ pc = "p_clean" =>
           LET x == input_csv.rows[1].price
               r == df[1].price
               occ == Occurrences(x.s)
           IN  /\ x.k = "nan" => r = NaN
               /\ x.k = "num" => r = Num(x.v)
               /\ (x.k = "str" /\ occ = {}) => r = NaN
               /\ (x.k = "str" /\ occ # {}) =>
                      \E ij \in occ :
                          /\ \A o \in occ : ij[1] <= o[1]
                          /\ \A o \in occ : o[1] = ij[1] => o[2] <= ij[2]
                          /\ r = Denoted(SubSeq(x.s, ij[1], ij[2]))

C14_Witness ==
    /\ pc = "p_clean"
    /\ input_csv.rows[1].price = Str(<<"x", "-", ".", "1">>)
    /\ df[1].price.k = "num" /\ df[1].price.v = -1
    /\ "e" \in DOMAIN df[1].price /\ df[1].price.e = -1

----------------------------------------------------------------------------
(* Specification of the parallel grid search: train_model and             *)
(* train_model_azure at the call of grid_search.fit                        *)

\* the records of train_azure.py's input file, already split
AtAzureSearch(n, data) ==
    /\ pc = "a_search"
    /\ input_csv = [columns |-> required_cols,
                    rows |-> PipelineTable(n, n \div 2)]
    /\ columns = {}
    /\ df = <<>>
    /\ initial_size = Unset
    /\ final_size = Unset
    /\ preprocessor = Unfitted
    /\ X_processed = <<>>
    /\ prep_dir = EmptyDir
    /\ error = NoError
    /\ applied = NotApplied
    /\ cv_data = data
    /\ split = [made |-> TRUE, train |-> Ascending(1..TrainSize(n)),
                test |-> Ascending(TrainSize(n) + 1..n)]
    /\ baseline = NoBaseline
    /\ search = NoSearch
    /\ best = NoBest
    /\ model_dir = EmptyDir
    /\ tracking = NoTracking
    /\ registry = <<>>
    /\ reg = NoReg
    /\ runs = 0
    /\ predict_calls = {}
    /\ azure = NoAzure

InitParallel ==
    \E data \in PipelineProfiles :
        \/ AtSearch(cv + 1, data) /\ parallel = StartParallel("train")
        \/ AtAzureSearch(cv + 1, data) /\ parallel = StartParallel("azure")

NextParallel == Dispatch \/ FinishTask \/ SelectBest

SpecParallel == InitParallel /\ [][NextParallel]_vars

----------------------------------------------------------------------------
(* Claim about the parallel grid search (checked under SpecParallel) *)

\* the mean score of combination k when its folds are evaluated one after
\* the other
SequentialMean(grid, data, k) ==
    Mean([f \in 1..cv |-> TaskScore(grid, data, (k - 1) * cv + f)])

Arrived == {t \in 1..Len(parallel.out) : parallel.out[t] # NoScore}

\* C18: whatever the order in which the workers finish, no result is lost
\* (the results collected so far are those of exactly the finished tasks,
\* and the list that is merged holds, for every combination and fold, the
\* score of that combination on that fold), and the combination selected is
\* the one a sequential evaluation selects: the first of the combinations
\* of greatest mean score.
C18_SelectionIndependentOfFinishOrder ==
    parallel.grid # "" =>
        /\ Arrived = (1..parallel.next - 1) \ parallel.running
        /\ ( /\ parallel.next > Candidates(parallel.grid) * cv
             /\ parallel.running = {} ) =>
               \A t \in 1..Candidates(parallel.grid) * cv :
                   parallel.out[t] = TaskScore(parallel.grid, cv_data, t)
        /\ parallel.best_index # 0 =>
               LET b == parallel.best_index
                   n == Candidates(parallel.grid)
                   m(k) == SequentialMean(parallel.grid, cv_data, k)
               IN  /\ b \in 1..n
                   /\ Arrived = 1..Candidates(parallel.grid) * cv
                   /\ \A k \in 1..n :
                          /\ m(k) <= m(b)
                          /\ k < b => m(k) < m(b)
                   /\ parallel.grid = "train" =>
                          /\ search.best_index = b
                          /\ best.params = ParameterGrid(b)
                          /\ Len(search.cv_results) = n

C18_Witness ==
    /\ parallel.best_index # 0
    /\ parallel.reordered
    /\ parallel.grid = "train"
    /\ \E k \in 1..GridSize :
           /\ k # parallel.best_index
           /\ SequentialMean("train", cv_data, k)
                  = SequentialMean("train", cv_data, parallel.best_index)

====
